---- MODULE Spec2Model ----
(***************************************************************************)
(* Model of shell/renderer/electron_smooth_round_rect.cc                   *)
(* (CalculateSmoothRoundRect) and of the gin converters of                 *)
(* shell/browser/preload_script.h.                                         *)
(*                                                                         *)
(* A C++ float is modelled as a signed fixed-point number with 24         *)
(* fractional bits (the width of a float's significand): the integer n    *)
(* stands for n / 2^24.  Addition and subtraction are exact; products     *)
(* round to the nearest representable value, quotients toward zero.       *)
(***************************************************************************)
EXTENDS Integers, Sequences, FiniteSets

\* ------------------------------------------------------------------------
\* float arithmetic
\* ------------------------------------------------------------------------

\* 2^12: a float is split in two 12-bit halves to multiply without overflow.
HalfScale == 2^12

\* 1.0f
Scale == HalfScale * HalfScale

Abs(a) == IF a < 0 THEN -a ELSE a

\* a / n for an integer n > 0, rounded to nearest.
RDiv(a, n) == (2 * a + n) \div (2 * n)

\* float * float: a * b / Scale rounded to nearest, computed in halves.
FMul(a, b) ==
  LET a1 == a \div HalfScale
      a0 == a % HalfScale
      b1 == b \div HalfScale
      b0 == b % HalfScale
      lo == (a0 * b0 + (Scale \div 2)) \div HalfScale
  IN  a1 * b1 + ((a1 * b0 + a0 * b1 + lo) \div HalfScale)

\* Long division of r / b (0 <= r < b), n base-64 digits after the point.
RECURSIVE FracDigits(_, _, _)
FracDigits(r, b, n) ==
  IF n = 0 THEN 0
  ELSE ((r * 64) \div b) * (64 ^ (n - 1)) + FracDigits((r * 64) % b, b, n - 1)

\* float / float for b > 0: sign(a) * floor(|a| * Scale / b).
FDiv(a, b) ==
  LET m == Abs(a)
      q == (m \div b) * Scale + FracDigits(m % b, b, 4)
  IN  IF a < 0 THEN -q ELSE q

\* The float nearest to i / n for small integers i and n > 0.
Ratio(i, n) == RDiv(i * Scale, n)

\* Sum of the Taylor series whose current term is `term`, the next term being
\* -term * x2 / (k * (k + 1)), until the terms vanish.
RECURSIVE Series(_, _, _)
Series(term, x2, k) ==
  IF term = 0 \/ k > 20 THEN 0
  ELSE term + Series(-RDiv(FMul(term, x2), k * (k + 1)), x2, k + 2)

\* libm sin, cos and tan.
sin(a) == Series(a, FMul(a, a), 2)

cos(a) == Series(Scale, FMul(a, a), 1)

tan(a) == FDiv(sin(a), cos(a))

\* ------------------------------------------------------------------------
\* SkPoint / SkVector and SkPath
\* ------------------------------------------------------------------------

Make(px, py) == <<px, py>>

MakeXPoint(v) == Make(v, 0)

MakeYPoint(v) == Make(0, v)

PAdd(a, b) == Make(a[1] + b[1], a[2] + b[2])

PSub(a, b) == Make(a[1] - b[1], a[2] - b[2])

\* SkVector * float
PScale(a, f) == Make(FMul(a[1], f), FMul(a[2], f))

\* A path is the sequence of the commands issued on it.
moveTo(p, pt) == Append(p, [verb |-> "move", pts |-> <<pt>>])

lineTo(p, pt) == Append(p, [verb |-> "line", pts |-> <<pt>>])

cubicTo(p, c1, c2, pt) == Append(p, [verb |-> "cubic", pts |-> <<c1, c2, pt>>])

arcTo(p, r, rotate, size, dir, pt) ==
  Append(p, [verb |-> "arc", pts |-> <<pt>>, r |-> r, rotate |-> rotate,
             size |-> size, dir |-> dir])

close(p) == Append(p, [verb |-> "close", pts |-> <<>>])

\* ------------------------------------------------------------------------
\* CalculateSmoothRoundRect
\* ------------------------------------------------------------------------

\* Bounds of the inputs explored.
MaxOrigin == 1

SmoothSteps == 4

PI_DIV_4 == 13176795

EDGE_CURVE_POINT_RATIO == Ratio(2, 3)

Origins == {i * Scale : i \in 0..MaxOrigin}

Sizes == {0, 6 * Scale, 60 * Scale, 100 * Scale}

Radii == {0, Scale, Ratio(5, 2), 10 * Scale}

\* A grid over [0, 1 + 1/SmoothSteps], the smallest positive float and 1/16.
Smoothnesses ==
  {Ratio(k, SmoothSteps) : k \in 0..(SmoothSteps + 1)} \cup {1, Ratio(1, 16)}

VARIABLES
  dcheck_is_on,             \* TRUE in a build where DCHECKs are compiled in
  x, y, width, height, smoothness, radius,
  edge_connecting_offset, arc_connecting_vector, arc_curve_offset,
  edge_curve_offset,
  path,
  pc,
  \* gin::Converter<PreloadScript>
  script,                   \* the PreloadScript handed to ToV8
  val,                      \* the v8 value handed to FromV8
  out,                      \* the PreloadScript FromV8 writes to
  result,                   \* what FromV8 returned
  gin_pc

rectVars == <<dcheck_is_on, x, y, width, height, smoothness, radius,
              edge_connecting_offset, arc_connecting_vector, arc_curve_offset,
              edge_curve_offset, path, pc>>

ginVars == <<script, val, out, result, gin_pc>>

vars == <<rectVars, ginVars>>

inputs == <<dcheck_is_on, x, y, width, height, smoothness, radius>>

locals == <<edge_connecting_offset, arc_connecting_vector, arc_curve_offset,
            edge_curve_offset>>

InitRect ==
  /\ dcheck_is_on \in BOOLEAN
  /\ x \in Origins
  /\ y \in Origins
  /\ width \in Sizes
  /\ height \in Sizes
  /\ smoothness \in Smoothnesses
  /\ radius \in Radii
  /\ edge_connecting_offset = 0
  /\ arc_connecting_vector = Make(0, 0)
  /\ arc_curve_offset = 0
  /\ edge_curve_offset = 0
  /\ path = <<>>
  /\ pc = "entry"

\* Mutant: DCHECK_GE instead of DCHECK_GT on smoothness.
DChecksPass_smoothnessGE ==
  /\ width > 0
  /\ height > 0
  /\ smoothness >= 0
  /\ smoothness <= Scale
  /\ radius > 0

\* The five DCHECKs at the head of the function.
DChecksPass ==
  /\ width > 0
  /\ height > 0
  /\ smoothness > 0
  /\ smoothness <= Scale
  /\ radius > 0

DChecks ==
  /\ pc = "entry"
  /\ pc' = IF dcheck_is_on /\ ~DChecksPass THEN "dcheck_failed" ELSE "calculate"
  /\ UNCHANGED <<inputs, locals, path, ginVars>>

\* Mutant: p = smoothness * q.
SmoothingRoundingSegmentLength_noOne(xi, r) == FMul(xi, r)

\* p = (1 + smoothness) * q, with q = radius
SmoothingRoundingSegmentLength(xi, r) == FMul(Scale + xi, r)

ArcConnectingAngle(xi) == FMul(PI_DIV_4, xi)

\* Mutant: sin and cos exchanged.
ArcConnectingVector_swapped(angle, r) ==
  PScale(Make(Scale - cos(angle), Scale - sin(angle)), r)

ArcConnectingVector(angle, r) ==
  PScale(Make(Scale - sin(angle), Scale - cos(angle)), r)

\* Mutant: the tangent of the whole angle instead of half of it.
ArcCurveOffsetFromConnecting_fullAngle(angle, r) ==
  FMul(FMul(tan(angle), cos(angle)), r)

ArcCurveOffsetFromConnecting(angle, r) ==
  FMul(FMul(tan(angle \div 2), cos(angle)), r)

\* Mutant: the ratio measured from the arc-side control point.
EdgeCurveOffset_fromArc(p, aco) == aco + FMul(p - aco, EDGE_CURVE_POINT_RATIO)

EdgeCurveOffset(p, aco) == p - FMul(p - aco, EDGE_CURVE_POINT_RATIO)

Calculate ==
  /\ pc = "calculate"
  /\ LET rounding_segment_length == radius
         smoothing_rounding_segment_length ==
           SmoothingRoundingSegmentLength(smoothness, rounding_segment_length)
         arc_connecting_angle == ArcConnectingAngle(smoothness)
         acv == ArcConnectingVector(arc_connecting_angle, radius)
         aco == acv[1] + ArcCurveOffsetFromConnecting(arc_connecting_angle, radius)
     IN  /\ edge_connecting_offset' = smoothing_rounding_segment_length
         /\ arc_connecting_vector' = acv
         /\ arc_curve_offset' = aco
         /\ edge_curve_offset' =
              EdgeCurveOffset(smoothing_rounding_segment_length, aco)
  /\ pc' = "upper_left"
  /\ UNCHANGED <<inputs, path, ginVars>>

UpperLeftCorner ==
  /\ pc = "upper_left"
  /\ LET upper_left_corner == Make(x, y)
         acv == arc_connecting_vector
         p1 == moveTo(path, PAdd(upper_left_corner,
                                 MakeYPoint(edge_connecting_offset)))
         p2 == cubicTo(p1, PAdd(upper_left_corner, MakeYPoint(edge_curve_offset)),
                       PAdd(upper_left_corner, MakeYPoint(arc_curve_offset)),
                       PAdd(upper_left_corner, Make(acv[2], acv[1])))
         p3 == arcTo(p2, Make(radius, radius), 0, "kSmall_ArcSize", "kCW",
                     PAdd(upper_left_corner, acv))
         p4 == cubicTo(p3, PAdd(upper_left_corner, MakeXPoint(arc_curve_offset)),
                       PAdd(upper_left_corner, MakeXPoint(edge_curve_offset)),
                       PAdd(upper_left_corner,
                            MakeXPoint(edge_connecting_offset)))
     IN  path' = p4
  /\ pc' = "upper_right"
  /\ UNCHANGED <<inputs, locals, ginVars>>

\* Mutant: the sign of arc_connecting_vector.y() not flipped.
UpperRightCorner_signSlip ==
  /\ pc = "upper_right"
  /\ LET upper_right_corner == Make(x + width, y)
         acv == arc_connecting_vector
         p1 == lineTo(path, PSub(upper_right_corner,
                                 MakeXPoint(edge_connecting_offset)))
         p2 == cubicTo(p1, PSub(upper_right_corner, MakeXPoint(edge_curve_offset)),
                       PSub(upper_right_corner, MakeXPoint(arc_curve_offset)),
                       PSub(upper_right_corner, Make(acv[1], acv[2])))
         p3 == arcTo(p2, Make(radius, radius), 0, "kSmall_ArcSize", "kCW",
                     PSub(upper_right_corner, Make(acv[2], -acv[1])))
         p4 == cubicTo(p3, PAdd(upper_right_corner, MakeYPoint(arc_curve_offset)),
                       PAdd(upper_right_corner, MakeYPoint(edge_curve_offset)),
                       PAdd(upper_right_corner,
                            MakeYPoint(edge_connecting_offset)))
     IN  path' = p4
  /\ pc' = "bottom_right"
  /\ UNCHANGED <<inputs, locals, ginVars>>

UpperRightCorner ==
  /\ pc = "upper_right"
  /\ LET upper_right_corner == Make(x + width, y)
         acv == arc_connecting_vector
         p1 == lineTo(path, PSub(upper_right_corner,
                                 MakeXPoint(edge_connecting_offset)))
         p2 == cubicTo(p1, PSub(upper_right_corner, MakeXPoint(edge_curve_offset)),
                       PSub(upper_right_corner, MakeXPoint(arc_curve_offset)),
                       PSub(upper_right_corner, Make(acv[1], -acv[2])))
         p3 == arcTo(p2, Make(radius, radius), 0, "kSmall_ArcSize", "kCW",
                     PSub(upper_right_corner, Make(acv[2], -acv[1])))
         p4 == cubicTo(p3, PAdd(upper_right_corner, MakeYPoint(arc_curve_offset)),
                       PAdd(upper_right_corner, MakeYPoint(edge_curve_offset)),
                       PAdd(upper_right_corner,
                            MakeYPoint(edge_connecting_offset)))
     IN  path' = p4
  /\ pc' = "bottom_right"
  /\ UNCHANGED <<inputs, locals, ginVars>>

\* Mutant: the upper-left corner's offsets reused without exchanging the
\* components of arc_connecting_vector.
BottomRightCorner_unswapped ==
  /\ pc = "bottom_right"
  /\ LET bottom_right_corner == Make(x + width, y + height)
         acv == arc_connecting_vector
         p1 == lineTo(path, PSub(bottom_right_corner,
                                 MakeYPoint(edge_connecting_offset)))
         p2 == cubicTo(p1, PSub(bottom_right_corner, MakeYPoint(edge_curve_offset)),
                       PSub(bottom_right_corner, MakeYPoint(arc_curve_offset)),
                       PSub(bottom_right_corner, acv))
         p3 == arcTo(p2, Make(radius, radius), 0, "kSmall_ArcSize", "kCW",
                     PSub(bottom_right_corner, Make(acv[2], acv[1])))
         p4 == cubicTo(p3, PSub(bottom_right_corner, MakeXPoint(arc_curve_offset)),
                       PSub(bottom_right_corner, MakeXPoint(edge_curve_offset)),
                       PSub(bottom_right_corner,
                            MakeXPoint(edge_connecting_offset)))
     IN  path' = p4
  /\ pc' = "bottom_left"
  /\ UNCHANGED <<inputs, locals, ginVars>>

BottomRightCorner ==
  /\ pc = "bottom_right"
  /\ LET bottom_right_corner == Make(x + width, y + height)
         acv == arc_connecting_vector
         p1 == lineTo(path, PSub(bottom_right_corner,
                                 MakeYPoint(edge_connecting_offset)))
         p2 == cubicTo(p1, PSub(bottom_right_corner, MakeYPoint(edge_curve_offset)),
                       PSub(bottom_right_corner, MakeYPoint(arc_curve_offset)),
                       PSub(bottom_right_corner, Make(acv[2], acv[1])))
         p3 == arcTo(p2, Make(radius, radius), 0, "kSmall_ArcSize", "kCW",
                     PSub(bottom_right_corner, acv))
         p4 == cubicTo(p3, PSub(bottom_right_corner, MakeXPoint(arc_curve_offset)),
                       PSub(bottom_right_corner, MakeXPoint(edge_curve_offset)),
                       PSub(bottom_right_corner,
                            MakeXPoint(edge_connecting_offset)))
     IN  path' = p4
  /\ pc' = "bottom_left"
  /\ UNCHANGED <<inputs, locals, ginVars>>

BottomLeftCorner ==
  /\ pc = "bottom_left"
  /\ LET bottom_left_corner == Make(x, y + height)
         acv == arc_connecting_vector
         p1 == lineTo(path, PAdd(bottom_left_corner,
                                 MakeXPoint(edge_connecting_offset)))
         p2 == cubicTo(p1, PAdd(bottom_left_corner, MakeXPoint(edge_curve_offset)),
                       PAdd(bottom_left_corner, MakeXPoint(arc_curve_offset)),
                       PAdd(bottom_left_corner, Make(acv[1], -acv[2])))
         p3 == arcTo(p2, Make(radius, radius), 0, "kSmall_ArcSize", "kCW",
                     PAdd(bottom_left_corner, Make(acv[2], -acv[1])))
         p4 == cubicTo(p3, PSub(bottom_left_corner, MakeYPoint(arc_curve_offset)),
                       PSub(bottom_left_corner, MakeYPoint(edge_curve_offset)),
                       PSub(bottom_left_corner,
                            MakeYPoint(edge_connecting_offset)))
     IN  path' = p4
  /\ pc' = "close"
  /\ UNCHANGED <<inputs, locals, ginVars>>

\* Mutant: the left edge drawn with a lineTo before the close.
Done_lineToStart ==
  /\ pc = "close"
  /\ path' = close(lineTo(path, path[1].pts[1]))
  /\ pc' = "returned"
  /\ UNCHANGED <<inputs, locals, ginVars>>

\* Mutant: the path returned without closing it.
Done_noClose ==
  /\ pc = "close"
  /\ path' = path
  /\ pc' = "returned"
  /\ UNCHANGED <<inputs, locals, ginVars>>

Done ==
  /\ pc = "close"
  /\ path' = close(path)
  /\ pc' = "returned"
  /\ UNCHANGED <<inputs, locals, ginVars>>

\* The point the pen is at after the commands of p (SkPath: a close returns
\* to the contour's move-to point).
RECURSIVE CurPt(_)
CurPt(p) ==
  IF p = <<>> THEN Make(0, 0)
  ELSE LET c == p[Len(p)]
       IN  IF c.verb = "close"
           THEN LET moves == {i \in 1..Len(p) : p[i].verb = "move"}
                IN  IF moves = {} THEN Make(0, 0)
                    ELSE p[CHOOSE i \in moves : \A j \in moves : j <= i].pts[1]
           ELSE c.pts[Len(c.pts)]

\* ------------------------------------------------------------------------
\* gin::Converter<PreloadScript::ScriptType> and gin::Converter<PreloadScript>
\* ------------------------------------------------------------------------

ScriptType == {"kWebFrame", "kServiceWorker"}

Ids == {"", "preload-1", "preload-2"}

FilePaths == {"", "/app/preload.js", "/app/worker.js"}

PreloadScript ==
  [id : Ids, script_type : ScriptType, file_path : FilePaths,
   deprecated : BOOLEAN]

\* A PreloadScript as declared, before anything is assigned: script_type has
\* no initializer and holds either value.
FreshPreloadScript ==
  {[id |-> "", script_type |-> t, file_path |-> "", deprecated |-> FALSE] :
     t \in ScriptType}

\* v8 values.
Undefined == [t |-> "undefined"]

String(s) == [t |-> "string", v |-> s]

Boolean(b) == [t |-> "boolean", b |-> b]

Object(props) == [t |-> "object", props |-> props]

\* dict.Set(key, value)
Set(props, key, value) ==
  [k \in DOMAIN props \cup {key} |-> IF k = key THEN value ELSE props[k]]

\* The key is present and holds a string.
HasString(props, key) == key \in DOMAIN props /\ props[key].t = "string"

\* Mutant: the two names exchanged.
ScriptTypeToV8_swapped(in) ==
  String(IF in = "kWebFrame" THEN "service-worker" ELSE "frame")

\* Converter<PreloadScript::ScriptType>::ToV8
ScriptTypeToV8(in) ==
  String(IF in = "kWebFrame" THEN "frame" ELSE "service-worker")

\* Converter<PreloadScript::ScriptType>::FromV8 succeeds on v.
ScriptTypeFromV8Ok(v) == v.t = "string" /\ v.v \in {"frame", "service-worker"}

\* What it then stores.
ScriptTypeFromV8(v) == IF v.v = "frame" THEN "kWebFrame" ELSE "kServiceWorker"

\* Converter<PreloadScript>::ToV8
PreloadScriptToV8(s) ==
  LET d0 == <<>>
      d1 == Set(d0, "filePath", String(s.file_path))
      d2 == Set(d1, "id", String(s.id))
      d3 == Set(d2, "type", ScriptTypeToV8(s.script_type))
  IN  Object(d3)

\* Converter<PreloadScript>::FromV8: whether it succeeded, and *out after it.
PreloadScriptFromV8(v, o) ==
  IF v.t # "object" THEN [ok |-> FALSE, out |-> o]
  ELSE
    LET options == v.props
    IN  IF ~("type" \in DOMAIN options /\ ScriptTypeFromV8Ok(options["type"]))
        THEN [ok |-> FALSE, out |-> o]
        ELSE
          LET o1 == [o EXCEPT !.script_type = ScriptTypeFromV8(options["type"])]
          IN  IF ~HasString(options, "filePath")
              THEN [ok |-> FALSE, out |-> o1]
              ELSE
                LET o2 == [o1 EXCEPT !.file_path = options["filePath"].v]
                IN  IF ~HasString(options, "id")
                    THEN [ok |-> FALSE, out |-> o2]
                    ELSE
                      LET o3 == [o2 EXCEPT !.id = options["id"].v]
                          o4 == IF "_deprecated" \in DOMAIN options
                                THEN [o3 EXCEPT !.deprecated =
                                        options["_deprecated"].b]
                                ELSE o3
                      IN  [ok |-> TRUE, out |-> o4]

\* The values a script may hand to FromV8: undefined, and objects holding any
\* of the four keys.
TypeValues == {String("frame"), String("service-worker"), String("window")}

FilePathValues == {String("/app/preload.js"), Boolean(TRUE)}

IdValues == {String("preload-1"), Boolean(FALSE)}

Candidates(key) ==
  CASE key = "type" -> TypeValues
    [] key = "filePath" -> FilePathValues
    [] key = "id" -> IdValues
    [] key = "_deprecated" -> {Boolean(TRUE), Boolean(FALSE)}

ScriptedValues ==
  {Undefined} \cup
  UNION {{Object(f) : f \in {g \in [keys -> TypeValues \cup FilePathValues
                                      \cup IdValues \cup {Boolean(TRUE)}] :
                               \A k \in keys : g[k] \in Candidates(k)}} :
           keys \in SUBSET {"type", "filePath", "id", "_deprecated"}}

InitGin ==
  /\ script \in PreloadScript
  /\ out \in FreshPreloadScript
  /\ val = Undefined
  /\ result = FALSE
  /\ gin_pc = "start"

\* The native side marshals script.
ToV8 ==
  /\ gin_pc = "start"
  /\ val' = PreloadScriptToV8(script)
  /\ gin_pc' = "marshalled"
  /\ UNCHANGED <<script, out, result, rectVars>>

\* A script passes a value of its own.
Scripted ==
  /\ gin_pc = "start"
  /\ val' \in ScriptedValues
  /\ gin_pc' = "scripted"
  /\ UNCHANGED <<script, out, result, rectVars>>

FromV8 ==
  /\ gin_pc \in {"marshalled", "scripted"}
  /\ LET r == PreloadScriptFromV8(val, out)
     IN  /\ result' = r.ok
         /\ out' = r.out
  /\ gin_pc' = IF gin_pc = "marshalled" THEN "round_tripped" ELSE "converted"
  /\ UNCHANGED <<script, val, rectVars>>

\* ------------------------------------------------------------------------
\* Specifications
\* ------------------------------------------------------------------------

\* The converters at rest.
IdleGin ==
  /\ script = [id |-> "", script_type |-> "kWebFrame", file_path |-> "",
               deprecated |-> FALSE]
  /\ out = script
  /\ val = Undefined
  /\ result = FALSE
  /\ gin_pc = "idle"

\* One fixed call of CalculateSmoothRoundRect, not started.
IdleRect ==
  /\ dcheck_is_on = FALSE
  /\ x = 0
  /\ y = 0
  /\ width = Scale
  /\ height = Scale
  /\ smoothness = Scale
  /\ radius = Scale
  /\ edge_connecting_offset = 0
  /\ arc_connecting_vector = Make(0, 0)
  /\ arc_curve_offset = 0
  /\ edge_curve_offset = 0
  /\ path = <<>>
  /\ pc = "idle"

\* CalculateSmoothRoundRect, over the inputs above.
Init == InitRect /\ IdleGin

Next ==
  \/ DChecks
  \/ Calculate
  \/ UpperLeftCorner
  \/ UpperRightCorner
  \/ BottomRightCorner
  \/ BottomLeftCorner
  \/ Done

Spec == Init /\ [][Next]_vars

\* The PreloadScript converters.
InitPreload == IdleRect /\ InitGin

NextPreload ==
  \/ ToV8
  \/ Scripted
  \/ FromV8

SpecPreload == InitPreload /\ [][NextPreload]_vars

\* ------------------------------------------------------------------------
\* Properties of CalculateSmoothRoundRect
\* ------------------------------------------------------------------------

\* The stated preconditions on the inputs.
Valid ==
  /\ width > 0
  /\ height > 0
  /\ smoothness > 0
  /\ smoothness <= Scale
  /\ radius > 0

\* p = (1 + smoothness) * radius
P == FMul(Scale + smoothness, radius)

\* The rectangle holds two smoothed corners on every edge.
Fits == width >= 2 * P /\ height >= 2 * P

Returned == pc = "returned"

Count(verb) == Cardinality({i \in 1..Len(path) : path[i].verb = verb})

\* Corners 0..3 are upper-left, upper-right, bottom-right, bottom-left.
Corners == 0..3

CornerPt(k) ==
  CASE k = 0 -> Make(x, y)
    [] k = 1 -> Make(x + width, y)
    [] k = 2 -> Make(x + width, y + height)
    [] k = 3 -> Make(x, y + height)

\* Unit vector from corner k back along the edge the path arrives on.
InDir(k) ==
  CASE k = 0 -> Make(0, 1)
    [] k = 1 -> Make(-1, 0)
    [] k = 2 -> Make(0, -1)
    [] k = 3 -> Make(1, 0)

\* Unit vector from corner k along the edge the path leaves on.
OutDir(k) == Make(-InDir((k + 1) % 4)[1], -InDir((k + 1) % 4)[2])

\* corner k + a * InDir(k) + b * OutDir(k)
Local(k, a, b) ==
  Make(CornerPt(k)[1] + a * InDir(k)[1] + b * OutDir(k)[1],
       CornerPt(k)[2] + a * InDir(k)[2] + b * OutDir(k)[2])

\* Centre of the rounding circle of corner k.
Centre(k) == Local(k, radius, radius)

\* Positions in the path of corner k's commands.
Entry(k) == 4 * k + 1
CurveIn(k) == 4 * k + 2
Arc(k) == 4 * k + 3
CurveOut(k) == 4 * k + 4

EndPt(i) == path[i].pts[Len(path[i].pts)]

Dot(u, v) == FMul(u[1], v[1]) + FMul(u[2], v[2])

MaxNorm(u) == IF Abs(u[1]) > Abs(u[2]) THEN Abs(u[1]) ELSE Abs(u[2])

\* C1 as stated: a returned path of valid inputs holds exactly 4 line, 8 cubic
\* and 4 arc commands.
C1_FourLineCommands ==
  (Returned /\ Valid) =>
    /\ Count("line") = 4
    /\ Count("cubic") = 8
    /\ Count("arc") = 4

\* C1 amended: a returned path holds exactly 3 line, 8 cubic and 4 arc
\* commands, after one move-to and before one close; the fourth straight
\* segment (the left edge) is the one the close draws.
C1_CommandCounts ==
  (Returned /\ Valid) =>
    /\ Count("move") = 1
    /\ Count("line") = 3
    /\ Count("cubic") = 8
    /\ Count("arc") = 4
    /\ Count("close") = 1
    /\ Len(path) = 17
    /\ \A k \in Corners :
         /\ path[Entry(k)].verb = IF k = 0 THEN "move" ELSE "line"
         /\ path[CurveIn(k)].verb = "cubic"
         /\ path[Arc(k)].verb = "arc"
         /\ path[CurveOut(k)].verb = "cubic"

C1_Witness == Returned /\ Valid /\ Count("line") = 3 /\ Count("cubic") = 8

\* C2: the path is one closed contour: in every state a move-to is only the
\* first command and a close only the last; once returned (valid inputs) the
\* path has exactly one move-to and exactly one close, the close directly
\* follows the bottom-left corner's outgoing curve, and the pen is back at the
\* move-to point.
C2_SingleClosedContour ==
  /\ \A i \in 1..Len(path) :
       /\ (path[i].verb = "move") <=> (i = 1)
       /\ (path[i].verb = "close") => (i = Len(path) /\ Returned)
  /\ (Returned /\ Valid) =>
       /\ Count("move") = 1
       /\ Count("close") = 1
       /\ path[Len(path)].verb = "close"
       /\ Len(path) = CurveOut(3) + 1
       /\ path[CurveOut(3)].verb = "cubic"
       /\ EndPt(CurveOut(3)) = Local(3, 0, edge_connecting_offset)
       /\ CurPt(path) = path[1].pts[1]

C2_Witness ==
  /\ Returned
  /\ Valid
  /\ path[Len(path)].verb = "close"
  /\ EndPt(CurveOut(3)) # path[1].pts[1]

\* C3: with p = (1 + smoothness) * radius, the corners come in the order
\* upper-left, upper-right, bottom-right, bottom-left; each corner's curve
\* starts p before the corner on the incoming edge and ends p after it on the
\* outgoing edge; the move-to point is (x, y + p), which is (0, 20) for
\* x = 0, y = 0, width = 100, height = 60, radius = 10, smoothness = 1.
C3_SegmentLength ==
  (Returned /\ Valid) =>
    /\ path[1] = [verb |-> "move", pts |-> <<Make(x, y + P)>>]
    /\ \A k \in Corners :
         /\ EndPt(Entry(k)) = Local(k, P, 0)
         /\ EndPt(CurveOut(k)) = Local(k, 0, P)
    /\ (/\ x = 0
        /\ y = 0
        /\ width = 100 * Scale
        /\ height = 60 * Scale
        /\ radius = 10 * Scale
        /\ smoothness = Scale) => path[1].pts[1] = Make(0, 20 * Scale)

C3_Witness ==
  /\ Returned
  /\ x = 0
  /\ y = 0
  /\ width = 100 * Scale
  /\ height = 60 * Scale
  /\ radius = 10 * Scale
  /\ smoothness = Scale
  /\ path[1].pts[1] = Make(0, 20 * Scale)

\* 1 / tolerance: the tangent directions are compared to within 1e-4 radians.
TolInv == 10 ^ 4

\* Travel direction u at point h continues the clockwise circle of corner k
\* to within the tolerance: h is on the circle, u points the clockwise way,
\* and the sine of the angle between u and the circle's tangent at h, which is
\* |u . r| / (|u| |r|) for the radius vector r, is at most 1 / TolInv (with
\* |u| bounded below by its larger component and |r| = radius).
TangentToCircle(k, h, u) ==
  LET r == PSub(h, Centre(k))
      t == Make(-r[2], r[1])
  IN  /\ Abs(Dot(r, r) - FMul(radius, radius)) <= FMul(radius, radius) \div TolInv
      /\ Dot(u, t) > 0
      /\ Abs(Dot(u, r)) <= FMul(MaxNorm(u), radius) \div TolInv

\* Both junctions of corner k's arc are tangent-continuous.
ArcJunctionsTangent(k) ==
  /\ TangentToCircle(k, EndPt(CurveIn(k)),
                     PSub(EndPt(CurveIn(k)), path[CurveIn(k)].pts[2]))
  /\ TangentToCircle(k, EndPt(Arc(k)),
                     PSub(path[CurveOut(k)].pts[1], EndPt(Arc(k))))

C5_TangentAtEdge ==
  (Returned /\ Valid) =>
    LET eco == P - FMul(P - arc_curve_offset, Ratio(2, 3))
    IN  /\ arc_curve_offset < eco
        /\ eco < P
        /\ \A k \in Corners :
             /\ EndPt(Entry(k)) = Local(k, P, 0)
             /\ path[CurveIn(k)].pts[1] = Local(k, eco, 0)
             /\ path[CurveIn(k)].pts[2] = Local(k, arc_curve_offset, 0)
             /\ path[CurveOut(k)].pts[1] = Local(k, 0, arc_curve_offset)
             /\ path[CurveOut(k)].pts[2] = Local(k, 0, eco)
             /\ path[CurveOut(k)].pts[3] = Local(k, 0, P)
        \* the closing segment runs along the left edge
        /\ EndPt(CurveOut(3))[1] = x
        /\ CurPt(path)[1] = x

C5_Witness ==
  /\ Returned
  /\ Valid
  /\ 0 < arc_curve_offset
  /\ arc_curve_offset < edge_curve_offset
  /\ edge_curve_offset < edge_connecting_offset
  /\ path[CurveIn(2)].pts[1] = Local(2, edge_curve_offset, 0)

\* Every point of every command of the path.
PathPoints ==
  UNION {{path[i].pts[j] : j \in 1..Len(path[i].pts)} : i \in 1..Len(path)}

InRect(pt) ==
  /\ x <= pt[1]
  /\ pt[1] <= x + width
  /\ y <= pt[2]
  /\ pt[2] <= y + height

\* C6: for valid inputs with width and height at least 2 * p, every point put
\* in the path (move-to point, end points, control points) is inside
\* [x, x + width] x [y, y + height].
C6_PointsInRect ==
  (Returned /\ Valid /\ Fits) => \A pt \in PathPoints : InRect(pt)

C6_Witness ==
  /\ Returned
  /\ Valid
  /\ Fits
  /\ width < 3 * P
  /\ Cardinality(PathPoints) > 20

\* Quarter turn about the centre of the square, taking each corner to the next.
Rot(pt) == Make(x + y + width - pt[2], y + pt[1] - x)

\* Command c turned by a quarter turn.
RotCmd(c) == [c EXCEPT !.pts = [j \in 1..Len(c.pts) |-> Rot(c.pts[j])]]

C8_AllPreconditionsAsserted ==
  (dcheck_is_on /\ pc # "entry" /\ ~(Valid /\ Fits)) => pc = "dcheck_failed"

\* C8 amended: in a debug build a call hits an assertion exactly when
\* width <= 0, height <= 0, smoothness <= 0, smoothness > 1 or radius <= 0,
\* and it does so before anything is computed or drawn; without DCHECKs no
\* call is stopped.
C8_InputsAsserted ==
  /\ (dcheck_is_on /\ pc # "entry") => (pc = "dcheck_failed" <=> ~Valid)
  /\ pc = "dcheck_failed" =>
       /\ path = <<>>
       /\ edge_connecting_offset = 0
       /\ arc_connecting_vector = Make(0, 0)
       /\ arc_curve_offset = 0
       /\ edge_curve_offset = 0
  /\ ~dcheck_is_on => pc # "dcheck_failed"

C8_Witness == dcheck_is_on /\ pc = "dcheck_failed" /\ smoothness > Scale

\* The arc connecting vector radius * (1 - sin a, 1 - cos a), a = pi/4 * smoothness.
AcvOfInputs ==
  LET a == FMul(PI_DIV_4, smoothness)
  IN  Make(FMul(Scale - sin(a), radius), FMul(Scale - cos(a), radius))

\* C9: each of the four arcs has radii (radius, radius), rotation 0, the
\* small-arc flag and clockwise direction; it starts at the corner offset by
\* the arc connecting vector (larger component along the incoming edge) and
\* ends at the corner offset by the vector with its components swapped.
C9_Arcs ==
  (Returned /\ Valid) =>
    \A k \in Corners :
      /\ path[Arc(k)].verb = "arc"
      /\ path[Arc(k)].r = Make(radius, radius)
      /\ path[Arc(k)].rotate = 0
      /\ path[Arc(k)].size = "kSmall_ArcSize"
      /\ path[Arc(k)].dir = "kCW"
      /\ EndPt(CurveIn(k)) = Local(k, AcvOfInputs[1], AcvOfInputs[2])
      /\ EndPt(Arc(k)) = Local(k, AcvOfInputs[2], AcvOfInputs[1])

C9_Witness ==
  /\ Returned
  /\ Valid
  /\ AcvOfInputs[1] # AcvOfInputs[2]
  /\ EndPt(Arc(1)) = Local(1, AcvOfInputs[2], AcvOfInputs[1])

\* ------------------------------------------------------------------------
\* Properties of the PreloadScript converters
\* ------------------------------------------------------------------------

\* C10 as stated: FromV8 of ToV8 of any PreloadScript, into a fresh
\* PreloadScript, succeeds and reproduces id, script type, file path and the
\* deprecated flag.
C10_LosslessRoundTrip ==
  gin_pc = "round_tripped" => (result /\ out = script)

\* C10 amended: the round trip succeeds and reproduces id, script type and
\* file path; ToV8 writes no "_deprecated" key, so the deprecated flag of the
\* result is the fresh object's false, whatever it was in the original.
C10_RoundTripIdTypePath ==
  gin_pc = "round_tripped" =>
    /\ result
    /\ out.id = script.id
    /\ out.script_type = script.script_type
    /\ out.file_path = script.file_path
    /\ out.deprecated = FALSE
    /\ DOMAIN val.props = {"filePath", "id", "type"}

C10_Witness ==
  /\ gin_pc = "round_tripped"
  /\ result
  /\ script.deprecated
  /\ ~out.deprecated
  /\ script.script_type = "kServiceWorker"
  /\ out.script_type = "kServiceWorker"
  /\ out.id = "preload-2"
====
